---------------------------- MODULE Spec2Model ----------------------------
(***************************************************************************)
(* Model of drs4_dsbs: the three public functions of drs4_dsbs/dsbs.py     *)
(* (output, measure, download) and the two-sideband sample workflow of     *)
(* samples/single_channel.py.                                              *)
(*                                                                         *)
(* Conventions.                                                            *)
(*  - Python None is the empty tuple <<>>, an optional value x is <<x>>.   *)
(*  - An exception is a record [type, at]; NoExc stands for "no exception".*)
(*  - Frequencies are exact numbers in units of 0.01 GHz; a quotient is    *)
(*    kept as the pair [num, den].                                         *)
(*  - A text is a sequence of one-character strings where the code parses  *)
(*    it (argv); a CSV text is a table [header, rows].                     *)
(***************************************************************************)
EXTENDS Integers, Sequences, FiniteSets, TLC

VARIABLES
    pc,      \* position of the running program ("api", "data", or main's line)
    call,    \* the call being made / made last: function name and arguments
    exc,     \* exception raised by the last call, or propagating in main
    ret,     \* value returned by the last call (<<>> when none)
    sg,      \* send_commands invocations made so far (signal generator)
    ssh,     \* remote-shell invocations made so far (subprocess.run)
    mem,     \* main's local variables
    store,   \* the zarr store written by main
    trace    \* statements main has started, in order

vars == <<pc, call, exc, ret, sg, ssh, mem, store, trace>>

---------------------------------------------------------------------------
(* Bounds of the model *)

MaxChan == 2
MaxRows == 2

(* Constants of dsbs.py; frequencies in units of 0.01 GHz *)

FREQ_INTERVAL == 2
DEFAULT_INPUT_NUM == 1
DEFAULT_INTEG_TIME == 1000
DEFAULT_LO_FREQ == 9000
DEFAULT_LO_MUX == 5
DEFAULT_SIGNAL_CHAN == 0
DEFAULT_SIGNAL_SB == "USB"

None == <<>>
Some(x) == <<x>>
NoExc == [type |-> "none", at |-> "none"]
Exc(t, a) == [type |-> t, at |-> a]

(* Python's  a or b  on optional values *)
Or(a, b) == IF a # None THEN a ELSE b

(* os.environ as the functions read it *)
EnvSets == {[DRS4_USER |-> Some("drs4"), DRS4_HOST |-> Some("drs4host"),
             DRS4_PASSWORD |-> Some("pw"), SG_HOST |-> Some("sghost"), SG_PORT |-> p] :
            p \in {None, Some(5025)}}

---------------------------------------------------------------------------
(* scpi.send_commands: one connection per call, the commands written in    *)
(* order; the connection may fail to open, or a write may fail after k     *)
(* commands.                                                               *)

SendOutcomes(cmds) ==
    {[kind |-> "ok", k |-> Len(cmds)], [kind |-> "connect", k |-> 0]}
    \cup {[kind |-> "write", k |-> k] : k \in 0..(Len(cmds) - 1)}

send_commands(cmds, host, port, oc) ==
    [sent |-> <<[host |-> host, port |-> port, connections |-> 1,
                 handed |-> cmds,
                 delivered |-> SubSeq(cmds, 1, oc.k)]>>,
     exc |-> CASE oc.kind = "ok" -> NoExc
               [] oc.kind = "connect" -> Exc("ConnectionError", "send_commands")
               [] OTHER -> Exc("TransportError", "send_commands")]

---------------------------------------------------------------------------
(* dsbs.output *)

Sidebands == {"USB", "LSB"}

(* a plan that adds the channel offset for both sidebands *)
SGFreq_SameSign(signal_chan, signal_SB, LO_freq, LO_mux) ==
    [num |-> LO_freq + FREQ_INTERVAL * signal_chan, den |-> 100 * LO_mux]

SGFreq(signal_chan, signal_SB, LO_freq, LO_mux) ==
    IF signal_SB = "USB"
    THEN [num |-> LO_freq + FREQ_INTERVAL * signal_chan, den |-> 100 * LO_mux]
    ELSE [num |-> LO_freq - FREQ_INTERVAL * signal_chan, den |-> 100 * LO_mux]

(* an output that is switched on before the frequency is set *)
OutputCommands_OnFirst(SG_freq) ==
    << [cmd |-> "OUTP ON", arg |-> None],
       [cmd |-> "FREQ:MODE CW", arg |-> None],
       [cmd |-> "FREQ:CW", arg |-> Some([value |-> SG_freq, unit |-> "GHZ"])],
       [cmd |-> "OUTP OFF", arg |-> None] >>

OutputCommands(SG_freq) ==
    << [cmd |-> "OUTP OFF", arg |-> None],
       [cmd |-> "FREQ:MODE CW", arg |-> None],
       [cmd |-> "FREQ:CW", arg |-> Some([value |-> SG_freq, unit |-> "GHZ"])],
       [cmd |-> "OUTP ON", arg |-> None] >>

OutputArgs(sc, sb) ==
    [host |-> None, port |-> None, signal_chan |-> sc, signal_SB |-> sb,
     LO_freq |-> DEFAULT_LO_FREQ, LO_mux |-> DEFAULT_LO_MUX]

(* an output whose second branch is a plain else *)
output_ElseLSB(a, env, oc) ==
    LET host == Or(a.host, env.SG_HOST)
        port == Or(a.port, env.SG_PORT)
    IN  IF a.LO_mux = 0
        THEN [sent |-> <<>>, exc |-> Exc("ZeroDivisionError", "output:LO_mux")]
        ELSE IF port = None
        THEN [sent |-> <<>>, exc |-> Exc("TypeError", "output:int(port)")]
        ELSE send_commands(
                 OutputCommands(SGFreq(a.signal_chan, a.signal_SB, a.LO_freq, a.LO_mux)),
                 host, port[1], oc)

(* a: the keyword arguments, env: os.environ, oc: what the socket does *)
output(a, env, oc) ==
    LET host == Or(a.host, env.SG_HOST)
        port == Or(a.port, env.SG_PORT)
    IN  IF a.signal_SB \notin Sidebands
        THEN [sent |-> <<>>, exc |-> Exc("ValueError", "output:sideband")]
        ELSE IF a.LO_mux = 0
        THEN [sent |-> <<>>, exc |-> Exc("ZeroDivisionError", "output:LO_mux")]
        ELSE IF port = None
        THEN [sent |-> <<>>, exc |-> Exc("TypeError", "output:int(port)")]
        ELSE send_commands(
                 OutputCommands(SGFreq(a.signal_chan, a.signal_SB, a.LO_freq, a.LO_mux)),
                 host, port[1], oc)

---------------------------------------------------------------------------
(* subprocess.run(f"ssh {user}@{host} -p {password} '{cmd}'", check=True,  *)
(* shell=True, text=True, timeout=timeout): neither stdout=PIPE nor        *)
(* capture_output is given, so the CompletedProcess carries stdout None    *)
(* whatever the remote command printed.                                    *)

RunOutcomes == {"ok", "nonzero", "timeout"}

(* f"{x}" of an optional string *)
Str(x) == IF x = None THEN "None" ELSE x[1]

SshLine(user, host, password, cmd) ==
    [user |-> Str(user), host |-> Str(host), p |-> Str(password), cmd |-> cmd]

(* line: the command line, oc: exit of the child, printed: what it printed *)
run(line, oc, printed) ==
    [ran |-> <<line>>,
     exc |-> CASE oc = "ok" -> NoExc
               [] oc = "nonzero" -> Exc("CalledProcessError", "run")
               [] OTHER -> Exc("TimeoutExpired", "run"),
     stdout |-> None]

---------------------------------------------------------------------------
(* dsbs.measure *)

IntegTimes == {100, 200, 500, 1000}

(* a chain that passes integ_time on in ms *)
MeasureChain_Millis(user, input_num, integ_time) ==
    << [prog |-> "cd", dir |-> <<"home", Str(user), "DRS4", "cmd">>, In |-> None, It |-> None],
       [prog |-> "./set_intg_time.py", dir |-> None, In |-> Some(input_num),
        It |-> Some(integ_time)],
       [prog |-> "./get_corr_rslt.py", dir |-> None, In |-> Some(input_num), It |-> None] >>

MeasureChain(user, input_num, integ_time) ==
    << [prog |-> "cd", dir |-> <<"home", Str(user), "DRS4", "cmd">>, In |-> None, It |-> None],
       [prog |-> "./set_intg_time.py", dir |-> None, In |-> Some(input_num),
        It |-> Some(integ_time \div 100)],
       [prog |-> "./get_corr_rslt.py", dir |-> None, In |-> Some(input_num), It |-> None] >>

MeasureArgs ==
    [user |-> None, host |-> None, password |-> None,
     input_num |-> DEFAULT_INPUT_NUM, integ_time |-> DEFAULT_INTEG_TIME]

(* a measure that runs the chain a second time when the first run fails *)
measure_Retry(a, env, oc) ==
    LET user == Or(a.user, env.DRS4_USER)
        host == Or(a.host, env.DRS4_HOST)
        password == Or(a.password, env.DRS4_PASSWORD)
    IN  IF a.integ_time \notin IntegTimes
        THEN [ran |-> <<>>, exc |-> Exc("ValueError", "measure:integ_time")]
        ELSE LET r == run(SshLine(user, host, password,
                                  MeasureChain(user, a.input_num, a.integ_time)),
                          oc, None)
             IN  [ran |-> IF r.exc = NoExc THEN r.ran ELSE r.ran \o r.ran, exc |-> r.exc]

(* a measure without the check of integ_time *)
measure_NoCheck(a, env, oc) ==
    LET user == Or(a.user, env.DRS4_USER)
        host == Or(a.host, env.DRS4_HOST)
        password == Or(a.password, env.DRS4_PASSWORD)
        r == run(SshLine(user, host, password,
                         MeasureChain(user, a.input_num, a.integ_time)), oc, None)
    IN  [ran |-> r.ran, exc |-> r.exc]

measure(a, env, oc) ==
    LET user == Or(a.user, env.DRS4_USER)
        host == Or(a.host, env.DRS4_HOST)
        password == Or(a.password, env.DRS4_PASSWORD)
    IN  IF a.integ_time \notin IntegTimes
        THEN [ran |-> <<>>, exc |-> Exc("ValueError", "measure:integ_time")]
        ELSE LET r == run(SshLine(user, host, password,
                                  MeasureChain(user, a.input_num, a.integ_time)),
                          oc, None)
             IN  [ran |-> r.ran, exc |-> r.exc]

---------------------------------------------------------------------------
(* CSV decoding and dataset assembly: dsbs.download, lines 181-195         *)

NaN == -1

EmptyText == [header |-> <<>>, rows |-> <<>>]

(* io.StringIO(initial_value): None gives an empty buffer *)
StringIO(stdout) == IF stdout = None THEN EmptyText ELSE stdout[1]

(* pandas.read_csv: the first line names the columns; no line, no columns *)
read_csv(text) ==
    IF text.header = <<>>
    THEN [exc |-> Exc("EmptyDataError", "read_csv"), df |-> EmptyText]
    ELSE [exc |-> NoExc, df |-> text]

HasColumn(df, name) == \E j \in 1..Len(df.header) : df.header[j] = name

ColumnIndex(df, name) == CHOOSE j \in 1..Len(df.header) : df.header[j] = name

(* a lookup by position that always takes the first column *)
Column_First(df, name) == [i \in 1..Len(df.rows) |-> df.rows[i][1]]

(* df[name] *)
Column(df, name) == [i \in 1..Len(df.rows) |-> df.rows[i][ColumnIndex(df, name)]]

(* df_cross["real"] + 1j * df_cross["imag"] *)
Complex(re, im) == [re |-> re, im |-> im]
CrossOf(df) ==
    [i \in 1..Len(df.rows) |-> Complex(Column(df, "real")[i], Column(df, "imag")[i])]

(* np.arange(n) *)
arange(n) == [i \in 1..n |-> i - 1]

(* a column laid on the chan axis of length n: cut or filled with NaN *)
Reindex(col, n, fill) == [i \in 1..n |-> IF i <= Len(col) THEN col[i] ELSE fill]

LibOutcomes == {"reject", "align"}

(* DSBS.new: every entry along "chan" must have chan's length; entries of  *)
(* another length are refused or laid on chan's index, as the dataset      *)
(* library decides (lib). Attributes are stored as given.                  *)
DSBS_new(time, chan, signal_chan, signal_SB, freq, auto_USB, auto_LSB, cross_2SB, input_num, integ_time, lib) ==
    LET n == Len(chan)
        same == /\ Len(freq) = n /\ Len(auto_USB) = n
                /\ Len(auto_LSB) = n /\ Len(cross_2SB) = n
    IN  IF ~same /\ lib = "reject"
        THEN [exc |-> Exc("ValueError", "DSBS.new:sizes"), ds |-> None]
        ELSE [exc |-> NoExc,
              ds |-> Some([time |-> <<time>>,
                           chan |-> chan,
                           signal_chan |-> <<signal_chan>>,
                           signal_SB |-> <<signal_SB>>,
                           freq |-> Reindex(freq, n, NaN),
                           auto_USB |-> <<Reindex(auto_USB, n, NaN)>>,
                           auto_LSB |-> <<Reindex(auto_LSB, n, NaN)>>,
                           cross_2SB |-> <<Reindex(cross_2SB, n, Complex(NaN, NaN))>>,
                           input_num |-> input_num,
                           integ_time |-> integ_time])]

PowerColumns == <<"freq[GHz]", "out0", "out1">>
PhaseColumns == <<"real", "imag">>

MissingColumn(df, names) ==
    \E j \in 1..Len(names) : ~HasColumn(df, names[j])

(* lines 181-195: the two captured outputs to a dataset *)
Assemble(stdout_autos, stdout_cross, a, now, lib) ==
    LET ra == read_csv(StringIO(stdout_autos))
        rc == read_csv(StringIO(stdout_cross))
    IN  IF ra.exc # NoExc THEN [exc |-> ra.exc, ds |-> None]
        ELSE IF rc.exc # NoExc THEN [exc |-> rc.exc, ds |-> None]
        ELSE IF MissingColumn(ra.df, PowerColumns)
        THEN [exc |-> Exc("KeyError", "df_autos"), ds |-> None]
        ELSE IF MissingColumn(rc.df, PhaseColumns)
        THEN [exc |-> Exc("KeyError", "df_cross"), ds |-> None]
        ELSE DSBS_new(now, arange(Len(ra.df.rows)), a.signal_chan, a.signal_SB,
                      Column(ra.df, "freq[GHz]"), Column(ra.df, "out0"),
                      Column(ra.df, "out1"), CrossOf(rc.df),
                      a.input_num, a.integ_time, lib)

---------------------------------------------------------------------------
(* dsbs.download *)

CatLine(user, file) ==
    <<[prog |-> "cat", dir |-> <<"home", Str(user), "DRS4", "mrdsppy", "output", file>>,
       In |-> None, It |-> None]>>

DownloadArgs(sc, sb) ==
    [user |-> None, host |-> None, password |-> None, signal_chan |-> sc,
     signal_SB |-> sb, input_num |-> DEFAULT_INPUT_NUM, integ_time |-> DEFAULT_INTEG_TIME]

(* e: what the two remote reads do and print, the clock, the library *)
download(a, env, e) ==
    LET user == Or(a.user, env.DRS4_USER)
        host == Or(a.host, env.DRS4_HOST)
        password == Or(a.password, env.DRS4_PASSWORD)
        cp_autos == run(SshLine(user, host, password, CatLine(user, "new_pow.csv")),
                        e.oc_autos, e.out_autos)
        cp_cross == run(SshLine(user, host, password, CatLine(user, "new_phase.csv")),
                        e.oc_cross, e.out_cross)
    IN  IF cp_autos.exc # NoExc
        THEN [ran |-> cp_autos.ran, exc |-> cp_autos.exc, ds |-> None]
        ELSE IF cp_cross.exc # NoExc
        THEN [ran |-> cp_autos.ran \o cp_cross.ran, exc |-> cp_cross.exc, ds |-> None]
        ELSE LET r == Assemble(cp_autos.stdout, cp_cross.stdout, a, e.now, e.lib)
             IN  [ran |-> cp_autos.ran \o cp_cross.ran, exc |-> r.exc, ds |-> r.ds]

---------------------------------------------------------------------------
(* xr.concat([ds_usb, ds_lsb], "time"): defaults join="outer",             *)
(* coords="different", combine_attrs="override". The chan indexes are      *)
(* joined (0..n-1 with 0..m-1 gives the longer), every entry is laid on    *)
(* the joined index, and the first dataset's attributes are kept.          *)

Max(x, y) == IF x >= y THEN x ELSE y

ConcatTime(a, b) ==
    LET n == Max(Len(a.chan), Len(b.chan))
        fa == Reindex(a.freq, n, NaN)
        fb == Reindex(b.freq, n, NaN)
    IN  [time |-> a.time \o b.time,
         chan |-> arange(n),
         signal_chan |-> a.signal_chan \o b.signal_chan,
         signal_SB |-> a.signal_SB \o b.signal_SB,
         freq |-> IF fa = fb THEN <<fa>> ELSE <<fa, fb>>,
         auto_USB |-> <<Reindex(a.auto_USB[1], n, NaN), Reindex(b.auto_USB[1], n, NaN)>>,
         auto_LSB |-> <<Reindex(a.auto_LSB[1], n, NaN), Reindex(b.auto_LSB[1], n, NaN)>>,
         cross_2SB |-> <<Reindex(a.cross_2SB[1], n, Complex(NaN, NaN)),
                         Reindex(b.cross_2SB[1], n, Complex(NaN, NaN))>>,
         input_num |-> a.input_num,
         integ_time |-> a.integ_time]

(* a concat that lists the LSB dataset first *)
xr_concat_Reversed(a, b) == ConcatTime(b, a)

xr_concat(a, b) == ConcatTime(a, b)

---------------------------------------------------------------------------
(* stop(): the generator-disable command of the sample workflow *)

StopCommands == << [cmd |-> "OUTP OFF", arg |-> None] >>

stop(env, oc) == send_commands(StopCommands, env.SG_HOST, env.SG_PORT, oc)

---------------------------------------------------------------------------
(* samples/single_channel.py: main *)

Digits == {"0", "1", "2", "3", "4", "5", "6", "7", "8", "9"}

DigitVal(c) ==
    CASE c = "0" -> 0 [] c = "1" -> 1 [] c = "2" -> 2 [] c = "3" -> 3 [] c = "4" -> 4
      [] c = "5" -> 5 [] c = "6" -> 6 [] c = "7" -> 7 [] c = "8" -> 8 [] OTHER -> 9

RECURSIVE DecimalValue(_)
DecimalValue(s) ==
    IF s = <<>> THEN 0
    ELSE 10 * DecimalValue(SubSeq(s, 1, Len(s) - 1)) + DigitVal(s[Len(s)])

(* int(s) of a string of characters *)
int(s) ==
    IF s # <<>> /\ \A i \in 1..Len(s) : s[i] \in Digits
    THEN [exc |-> NoExc, value |-> DecimalValue(s)]
    ELSE [exc |-> Exc("ValueError", "int"), value |-> 0]

(* the statements of the try block, lines 20-53 *)
Stmt(op, sb, line) == [op |-> op, sb |-> sb, line |-> line]

(* a try block that triggers the integration before programming the *)
(* generator *)
MainProgram_TriggerFirst ==
    << Stmt("argv1", "", 20), Stmt("argv2", "", 21),
       Stmt("measure", "USB", 31), Stmt("output", "USB", 26),
       Stmt("sleep", "USB", 30), Stmt("download", "USB", 32),
       Stmt("measure", "LSB", 45), Stmt("output", "LSB", 40),
       Stmt("sleep", "LSB", 44), Stmt("download", "LSB", 46),
       Stmt("concat", "", 52), Stmt("to_zarr", "", 53) >>

MainProgram ==
    << Stmt("argv1", "", 20), Stmt("argv2", "", 21),
       Stmt("output", "USB", 26), Stmt("sleep", "USB", 30),
       Stmt("measure", "USB", 31), Stmt("download", "USB", 32),
       Stmt("output", "LSB", 40), Stmt("sleep", "LSB", 44),
       Stmt("measure", "LSB", 45), Stmt("download", "LSB", 46),
       Stmt("concat", "", 52), Stmt("to_zarr", "", 53) >>

FinallyPc == Len(MainProgram) + 1
ExitPc == Len(MainProgram) + 2

(* what the outside world does during one statement *)
Printed == {None, Some([header |-> PhaseColumns, rows |-> << <<1, 2>> >>])}

PrintedAutos == {None, Some([header |-> PowerColumns, rows |-> << <<9000, 15, 25>> >>])}

NoChoice ==
    [send |-> [kind |-> "ok", k |-> 0], oc_autos |-> "ok", oc_cross |-> "ok",
     out_autos |-> None, out_cross |-> None, now |-> 0, lib |-> "reject", io |-> "ok"]

Choices(stmt, now) ==
    CASE stmt.op = "output" ->
            {[NoChoice EXCEPT !.send = oc] : oc \in SendOutcomes(OutputCommands(0))}
      [] stmt.op = "measure" ->
            {[NoChoice EXCEPT !.oc_autos = oc] : oc \in RunOutcomes}
      [] stmt.op = "download" ->
            {[NoChoice EXCEPT !.oc_autos = o1, !.oc_cross = o2, !.out_autos = t1,
                              !.out_cross = t2, !.now = now, !.lib = l] :
                o1 \in RunOutcomes, o2 \in RunOutcomes, t1 \in PrintedAutos, t2 \in Printed,
                l \in LibOutcomes}
      [] stmt.op = "to_zarr" ->
            {[NoChoice EXCEPT !.io = x] : x \in {"ok", "oserror"}}
      [] OTHER -> {NoChoice}

Result(m, e, sent, ran, st) == [mem |-> m, exc |-> e, sent |-> sent, ran |-> ran, store |-> st]

(* one statement of the try block, run on main's variables m *)
Exec(stmt, m, st, e) ==
    CASE stmt.op = "argv1" ->
            IF Len(m.argv) < 2
            THEN Result(m, Exc("IndexError", "argv"), <<>>, <<>>, st)
            ELSE LET r == int(m.argv[2])
                 IN  IF r.exc # NoExc THEN Result(m, r.exc, <<>>, <<>>, st)
                     ELSE Result([m EXCEPT !.signal_chan = Some(r.value)],
                                 NoExc, <<>>, <<>>, st)
      [] stmt.op = "argv2" ->
            IF Len(m.argv) < 3
            THEN Result(m, Exc("IndexError", "argv"), <<>>, <<>>, st)
            ELSE Result([m EXCEPT !.output_zarr = Some(m.argv[3])], NoExc, <<>>, <<>>, st)
      [] stmt.op = "output" ->
            LET r == output(OutputArgs(m.signal_chan[1], stmt.sb), m.env, e.send)
            IN  Result(m, r.exc, r.sent, <<>>, st)
      [] stmt.op = "sleep" -> Result(m, NoExc, <<>>, <<>>, st)
      [] stmt.op = "measure" ->
            LET r == measure(MeasureArgs, m.env, e.oc_autos)
            IN  Result(m, r.exc, <<>>, r.ran, st)
      [] stmt.op = "download" ->
            LET r == download(DownloadArgs(m.signal_chan[1], stmt.sb), m.env, e)
            IN  IF r.exc # NoExc THEN Result(m, r.exc, <<>>, r.ran, st)
                ELSE IF stmt.sb = "USB"
                THEN Result([m EXCEPT !.ds_usb = r.ds], NoExc, <<>>, r.ran, st)
                ELSE Result([m EXCEPT !.ds_lsb = r.ds], NoExc, <<>>, r.ran, st)
      [] stmt.op = "concat" ->
            Result([m EXCEPT !.ds = Some(xr_concat(m.ds_usb[1], m.ds_lsb[1]))],
                   NoExc, <<>>, <<>>, st)
      [] OTHER ->
            IF e.io = "ok" THEN Result(m, NoExc, <<>>, <<>>, Some(m.ds[1]))
            ELSE Result(m, Exc("OSError", "to_zarr"), <<>>, <<>>, st)

---------------------------------------------------------------------------
(* Inputs of the model *)

NoCall == [fn |-> "none", a |-> None]

Mem0(env, argv) ==
    [env |-> env, argv |-> argv, signal_chan |-> None, output_zarr |-> None,
     ds_usb |-> None, ds_lsb |-> None, ds |-> None]

Connections ==
    {[user |-> None, host |-> None, password |-> None],
     [user |-> Some("obs"), host |-> Some("10.0.0.1"), password |-> Some("22")]}

OutputArgSet ==
    [host : {None}, port : {None, Some(5025)}, signal_chan : 0..MaxChan,
     signal_SB : {"USB", "LSB", "usb", "DSB"},
     LO_freq : {DEFAULT_LO_FREQ, 10000}, LO_mux : {0, 1, DEFAULT_LO_MUX}]

MeasureArgSet ==
    {[user |-> c.user, host |-> c.host, password |-> c.password,
      input_num |-> i, integ_time |-> t] :
        c \in Connections, i \in {1, 2}, t \in {0, 50, 100, 200, 300, 500, 1000, 1100}}

DownloadArgSet ==
    {[user |-> None, host |-> None, password |-> None, signal_chan |-> sc,
      signal_SB |-> sb, input_num |-> i, integ_time |-> t] :
        sc \in 0..MaxChan, sb \in Sidebands, i \in {1, 2, 3}, t \in {100, 300, 1000}}

(* CSV tables of up to MaxRows rows *)
RowSeqs(S) == UNION {[1..n -> S] : n \in 0..MaxRows}

PowerRowVals ==
    {("freq[GHz]" :> 9000) @@ ("out0" :> 15) @@ ("out1" :> 25),
     ("freq[GHz]" :> 9002) @@ ("out0" :> 16) @@ ("out1" :> 26)}

PhaseRowVals ==
    {("real" :> 1) @@ ("imag" :> 2), ("real" :> 3) @@ ("imag" :> 4)}

Table(header, vals) ==
    [header |-> header,
     rows |-> [i \in 1..Len(vals) |-> [j \in 1..Len(header) |-> vals[i][header[j]]]]]

PowerTexts ==
    {Table(h, v) : h \in {PowerColumns, <<"out1", "freq[GHz]", "out0">>,
                          <<"freq[GHz]", "out0">>},
                   v \in RowSeqs(PowerRowVals)}

PhaseTexts ==
    {Table(h, v) : h \in {PhaseColumns, <<"imag", "real">>, <<"real">>},
                   v \in RowSeqs(PhaseRowVals)}

---------------------------------------------------------------------------
(* Spec: a caller of the library makes one call of output, measure or      *)
(* download with any arguments (pc = 0 before the call, ExitPc after it);  *)
(* sg and ssh hold what the call sent.                                     *)

Init ==
    /\ pc = 0
    /\ call = NoCall
    /\ exc = NoExc
    /\ ret = None
    /\ sg = <<>>
    /\ ssh = <<>>
    /\ mem \in {Mem0(e, <<>>) : e \in EnvSets}
    /\ store = None
    /\ trace = <<>>

CallOutput ==
    /\ pc = 0
    /\ \E a \in OutputArgSet, oc \in SendOutcomes(OutputCommands(0)) :
          LET r == output(a, mem.env, oc)
          IN  /\ call' = [fn |-> "output", a |-> a, oc |-> oc]
              /\ exc' = r.exc
              /\ ret' = None
              /\ sg' = r.sent
              /\ ssh' = <<>>
    /\ pc' = ExitPc
    /\ UNCHANGED <<mem, store, trace>>

CallMeasure ==
    /\ pc = 0
    /\ \E a \in MeasureArgSet, oc \in RunOutcomes :
          LET r == measure(a, mem.env, oc)
          IN  /\ call' = [fn |-> "measure", a |-> a, oc |-> oc]
              /\ exc' = r.exc
              /\ ret' = None
              /\ sg' = <<>>
              /\ ssh' = r.ran
    /\ pc' = ExitPc
    /\ UNCHANGED <<mem, store, trace>>

CallDownload ==
    /\ pc = 0
    /\ \E a \in DownloadArgSet, e \in Choices(Stmt("download", "", 0), 1) :
          LET r == download(a, mem.env, e)
          IN  /\ call' = [fn |-> "download", a |-> a, oc |-> e]
              /\ exc' = r.exc
              /\ ret' = r.ds
              /\ sg' = <<>>
              /\ ssh' = r.ran
    /\ pc' = ExitPc
    /\ UNCHANGED <<mem, store, trace>>

Next == CallOutput \/ CallMeasure \/ CallDownload

Spec == Init /\ [][Next]_vars

---------------------------------------------------------------------------
(* SpecMain: one run of samples/single_channel.py main()                   *)

ArgvSet ==
    {<<"single_channel.py">>,
     <<"single_channel.py", <<"1">>>>,
     <<"single_channel.py", <<"x">>, "out.zarr">>,
     <<"single_channel.py", <<"0">>, "out.zarr">>,
     <<"single_channel.py", <<"2">>, "out.zarr">>,
     <<"single_channel.py", <<"1", "0">>, "out.zarr">>}

InitMain ==
    /\ pc = 1
    /\ call = NoCall
    /\ exc = NoExc
    /\ ret = None
    /\ sg = <<>>
    /\ ssh = <<>>
    /\ mem \in {Mem0(e, av) : e \in EnvSets, av \in ArgvSet}
    /\ store = None
    /\ trace = <<>>

(* the try block: the next statement runs; an exception leaves the block *)
RunTry ==
    /\ pc \in 1..Len(MainProgram)
    /\ \E e \in Choices(MainProgram[pc], pc) :
          LET r == Exec(MainProgram[pc], mem, store, e)
          IN  /\ mem' = r.mem
              /\ store' = r.store
              /\ exc' = r.exc
              /\ sg' = sg \o r.sent
              /\ ssh' = ssh \o r.ran
              /\ trace' = Append(trace, [op |-> MainProgram[pc].op,
                                         sb |-> MainProgram[pc].sb, exc |-> r.exc])
              /\ pc' = IF r.exc = NoExc THEN pc + 1 ELSE FinallyPc
    /\ UNCHANGED <<call, ret>>

(* the finally block: stop() runs on every way out of the try block; an    *)
(* exception it raises replaces the one that was propagating               *)
RunFinally ==
    /\ pc = FinallyPc
    /\ \E oc \in SendOutcomes(StopCommands) :
          LET r == stop(mem.env, oc)
          IN  /\ sg' = sg \o r.sent
              /\ exc' = IF r.exc # NoExc THEN r.exc ELSE exc
              /\ trace' = Append(trace, [op |-> "stop", sb |-> "", exc |-> r.exc])
    /\ pc' = ExitPc
    /\ UNCHANGED <<call, ret, ssh, mem, store>>

NextMain == RunTry \/ RunFinally

SpecMain == InitMain /\ [][NextMain]_vars

---------------------------------------------------------------------------
(* SpecDecode: lines 181-195 of download applied to any two captured texts *)

Stdouts(texts) == {None} \cup {Some(t) : t \in texts \cup {EmptyText}}

Decode ==
    /\ pc = 0
    /\ \E sa \in Stdouts(PowerTexts), sc \in Stdouts(PhaseTexts),
          a \in DownloadArgSet, lib \in LibOutcomes :
          LET r == Assemble(sa, sc, a, 1, lib)
          IN  /\ call' = [fn |-> "Assemble",
                          a |-> [args |-> a, stdout_autos |-> sa, stdout_cross |-> sc,
                                 lib |-> lib]]
              /\ exc' = r.exc
              /\ ret' = r.ds
    /\ pc' = ExitPc
    /\ UNCHANGED <<sg, ssh, mem, store, trace>>

NextDecode == Decode

SpecDecode == Init /\ [][NextDecode]_vars

---------------------------------------------------------------------------
(* SpecMerge: line 52 of main applied to any USB dataset and LSB dataset   *)
(* that DSBS.new builds                                                    *)

Dataset(sb, sc, i, t, now, vp, vc) ==
    DSBS_new(now, arange(Len(vp)), sc, sb,
             [k \in 1..Len(vp) |-> vp[k]["freq[GHz]"]],
             [k \in 1..Len(vp) |-> vp[k]["out0"]],
             [k \in 1..Len(vp) |-> vp[k]["out1"]],
             [k \in 1..Len(vc) |-> Complex(vc[k]["real"], vc[k]["imag"])],
             i, t, "reject").ds

Datasets(sb, now) ==
    {Dataset(sb, sc, i, t, now, vp, vc) :
        sc \in 0..1, i \in {1, 2}, t \in {100, 1000},
        vp \in RowSeqs(PowerRowVals), vc \in RowSeqs({("real" :> 1) @@ ("imag" :> 2)})}
    \ {None}

InitMerge ==
    /\ pc = 0
    /\ call = NoCall
    /\ exc = NoExc
    /\ ret = None
    /\ sg = <<>>
    /\ ssh = <<>>
    /\ mem \in {[Mem0(e, <<>>) EXCEPT !.ds_usb = u, !.ds_lsb = l] :
                  e \in {x \in EnvSets : x.SG_PORT # None},
                  u \in Datasets("USB", 1), l \in Datasets("LSB", 2)}
    /\ store = None
    /\ trace = <<>>

Concat ==
    /\ pc = 0
    /\ LET r == Exec(Stmt("concat", "", 52), mem, store, NoChoice)
       IN  /\ mem' = r.mem
           /\ exc' = r.exc
           /\ ret' = IF r.exc = NoExc THEN r.mem.ds ELSE None
    /\ call' = [fn |-> "concat", a |-> None]
    /\ pc' = ExitPc
    /\ UNCHANGED <<sg, ssh, store, trace>>

NextMerge == Concat

SpecMerge == InitMerge /\ [][NextMerge]_vars

---------------------------------------------------------------------------
(* Claims about the two-sideband run (SpecMain)                            *)

AcqOps == {"output", "measure", "download", "concat"}

IsAcq(x) == x.op \in AcqOps

Steps == SelectSeq(trace, IsAcq)

FullOrder ==
    << <<"output", "USB">>, <<"measure", "USB">>, <<"download", "USB">>,
       <<"output", "LSB">>, <<"measure", "LSB">>, <<"download", "LSB">>,
       <<"concat", "">> >>

OutsideFailures ==
    {"ConnectionError", "TransportError", "CalledProcessError", "TimeoutExpired",
     "OSError", "IndexError", "TypeError"}

(* no socket, remote command, argument or storage failed during the run *)
NothingOutsideFailed ==
    \A i \in 1..Len(trace) :
        trace[i].exc.type \notin OutsideFailures /\ trace[i].exc.at # "int"

IsTry(x) == x.op # "stop"

TryTrace == SelectSeq(trace, IsTry)

(* an acquisition step (output, measure, download, concat) raised *)
StepFailed ==
    \E i \in 1..Len(TryTrace) : TryTrace[i].exc # NoExc /\ TryTrace[i].op \in AcqOps

FirstFailure == CHOOSE i \in 1..Len(TryTrace) : TryTrace[i].exc # NoExc

StopFailed == \E i \in 1..Len(trace) : trace[i].op = "stop" /\ trace[i].exc # NoExc

C2_AbortKeepsError ==
    (pc = ExitPc /\ StepFailed) =>
        /\ FirstFailure = Len(TryTrace)
        /\ mem.ds = None
        /\ store = None
        /\ exc = TryTrace[FirstFailure].exc

(* C3: when a step fails and stop() in the finally block fails too, the    *)
(* caller observes the step's error.                                       *)
C3_OriginalErrorObserved ==
    (pc = ExitPc /\ StepFailed /\ StopFailed) => exc = TryTrace[FirstFailure].exc

---------------------------------------------------------------------------
(* Claims about single calls (Spec)                                        *)

Returned(fn) == pc = ExitPc /\ call.fn = fn

(* C4: measure with an integ_time outside {100, 200, 500, 1000} raises the *)
(* integ_time ValueError with no remote command run; with an integ_time    *)
(* inside the set it runs the remote command chain.                        *)
C4_IntegTimeGuard ==
    Returned("measure") =>
        IF call.a.integ_time \notin {100, 200, 500, 1000}
        THEN exc = Exc("ValueError", "measure:integ_time") /\ ssh = <<>>
        ELSE /\ Len(ssh) = 1
             /\ Len(ssh[1].cmd) = 3
             /\ exc.type # "ValueError"

C4_Witness ==
    /\ Returned("measure")
    /\ call.a.integ_time = 300
    /\ exc = Exc("ValueError", "measure:integ_time")
    /\ ssh = <<>>

(* C5: output with a signal_SB outside {USB, LSB} raises the sideband      *)
(* ValueError and hands no command to the generator.                      *)
C5_InvalidSideband ==
    (Returned("output") /\ call.a.signal_SB \notin {"USB", "LSB"}) =>
        exc = Exc("ValueError", "output:sideband") /\ sg = <<>>

C5_Witness ==
    /\ Returned("output")
    /\ call.a.signal_SB = "usb"
    /\ call.a.port # None /\ call.a.LO_mux # 0
    /\ exc = Exc("ValueError", "output:sideband")
    /\ sg = <<>>

PlannedNum(a) ==
    IF a.signal_SB = "USB" THEN a.LO_freq + 2 * a.signal_chan
    ELSE a.LO_freq - 2 * a.signal_chan

CmdNames(cmds) == [i \in 1..Len(cmds) |-> cmds[i].cmd]

(* C6: a successful output makes one send on one connection of exactly     *)
(* OUTP OFF, FREQ:MODE CW, FREQ:CW <planned value>GHZ, OUTP ON in this     *)
(* order; in no call, failed or not, is OUTP ON delivered before FREQ:CW.  *)
C6_CommandSequence ==
    Returned("output") =>
        /\ exc = NoExc =>
              /\ Len(sg) = 1
              /\ sg[1].connections = 1
              /\ sg[1].delivered = sg[1].handed
              /\ CmdNames(sg[1].delivered) =
                     <<"OUTP OFF", "FREQ:MODE CW", "FREQ:CW", "OUTP ON">>
              /\ sg[1].delivered[3].arg[1].unit = "GHZ"
              /\ sg[1].delivered[3].arg[1].value.num = PlannedNum(call.a)
              /\ sg[1].delivered[3].arg[1].value.den = 100 * call.a.LO_mux
        /\ \A i \in 1..Len(sg) : \A j \in 1..Len(sg[i].delivered) :
              sg[i].delivered[j].cmd = "OUTP ON" =>
                  /\ j = Len(sg[i].handed)
                  /\ \E k \in 1..(j - 1) : sg[i].delivered[k].cmd = "FREQ:CW"

C6_Witness ==
    /\ Returned("output")
    /\ exc = NoExc
    /\ call.a.signal_SB = "LSB" /\ call.a.signal_chan = 2
    /\ Len(sg) = 1 /\ Len(sg[1].delivered) = 4

---------------------------------------------------------------------------
(* Claims about decoding and assembly (SpecDecode)                         *)

Decoded == pc = ExitPc /\ call.fn = "Assemble"

(* both captured texts are tables with the columns the decoder reads *)
WellFormedTexts ==
    /\ call.a.stdout_autos # None /\ call.a.stdout_cross # None
    /\ \A j \in 1..3 : HasColumn(call.a.stdout_autos[1], PowerColumns[j])
    /\ \A j \in 1..2 : HasColumn(call.a.stdout_cross[1], PhaseColumns[j])

EntryLengths(ds) ==
    {Len(ds.chan), Len(ds.freq), Len(ds.auto_USB[1]), Len(ds.auto_LSB[1]),
     Len(ds.cross_2SB[1])}

---------------------------------------------------------------------------
(* Claims about the merge (SpecMerge)                                      *)

Merged == pc = ExitPc /\ call.fn = "concat"

Incompatible(u, l) ==
    \/ u.signal_chan # l.signal_chan
    \/ u.input_num # l.input_num
    \/ u.integ_time # l.integ_time
    \/ Len(u.chan) # Len(l.chan)

C10_MergeOfValidPair ==
    (/\ Merged
     /\ mem.ds_usb[1].signal_chan = mem.ds_lsb[1].signal_chan
     /\ Len(mem.ds_usb[1].chan) = Len(mem.ds_lsb[1].chan)) =>
        /\ exc = NoExc
        /\ mem.ds # None
        /\ Len(mem.ds[1].time) = 2
        /\ mem.ds[1].time = <<mem.ds_usb[1].time[1], mem.ds_lsb[1].time[1]>>
        /\ mem.ds[1].signal_SB = <<"USB", "LSB">>
        /\ Len(mem.ds[1].chan) = Len(mem.ds_usb[1].chan)
        /\ \A t \in 1..2 : Len(mem.ds[1].auto_USB[t]) = Len(mem.ds_usb[1].chan)
        /\ mem.ds[1].auto_USB[1] = mem.ds_usb[1].auto_USB[1]
        /\ mem.ds[1].auto_USB[2] = mem.ds_lsb[1].auto_USB[1]

C10_Witness ==
    /\ Merged
    /\ mem.ds_usb[1].signal_chan = mem.ds_lsb[1].signal_chan
    /\ Len(mem.ds_usb[1].chan) = 2 /\ Len(mem.ds_lsb[1].chan) = 2
    /\ mem.ds_usb[1].auto_USB # mem.ds_lsb[1].auto_USB
    /\ mem.ds # None
    /\ Len(mem.ds[1].time) = 2 /\ Len(mem.ds[1].chan) = 2

---------------------------------------------------------------------------
(* Further claims about single calls (Spec)                                *)

(* C11: measure with a valid input_num and integ_time makes exactly one    *)
(* remote-shell invocation whose chain is cd <command directory>, then     *)
(* ./set_intg_time.py --In input_num --It integ_time/100 (1, 2, 5 or 10),  *)
(* then ./get_corr_rslt.py --In input_num; the call fails when the remote  *)
(* command exits non-zero or times out, and only then.                     *)
C11_TriggerChain ==
    (Returned("measure") /\ call.a.integ_time \in {100, 200, 500, 1000}) =>
        /\ Len(ssh) = 1
        /\ Len(ssh[1].cmd) = 3
        /\ ssh[1].cmd[1].prog = "cd"
        /\ ssh[1].cmd[1].dir = <<"home", ssh[1].user, "DRS4", "cmd">>
        /\ ssh[1].cmd[2].prog = "./set_intg_time.py"
        /\ ssh[1].cmd[2].In = <<call.a.input_num>>
        /\ ssh[1].cmd[2].It[1] \in {1, 2, 5, 10}
        /\ ssh[1].cmd[2].It[1] * 100 = call.a.integ_time
        /\ ssh[1].cmd[3].prog = "./get_corr_rslt.py"
        /\ ssh[1].cmd[3].In = <<call.a.input_num>>
        /\ call.oc = "nonzero" => exc.type = "CalledProcessError"
        /\ call.oc = "timeout" => exc.type = "TimeoutExpired"
        /\ call.oc = "ok" => exc = NoExc

C11_Witness ==
    /\ Returned("measure")
    /\ call.a.input_num = 2 /\ call.a.integ_time = 500
    /\ Len(ssh) = 1
    /\ ssh[1].cmd[2].It = <<5>>
    /\ call.oc = "nonzero" /\ exc # NoExc

---------------------------------------------------------------------------
(* SpecPlan: output called once per sideband with the same signal_chan,    *)
(* LO_freq and LO_mux > 0; LO_freq on the grid of 0.01 GHz                 *)

PlanArgSet ==
    [signal_chan : 0..MaxChan \cup {1023}, LO_freq : {DEFAULT_LO_FREQ, 10000, 8555},
     LO_mux : {1, 3, DEFAULT_LO_MUX}]

InitPlan ==
    /\ pc = 0
    /\ call \in {[fn |-> "plan", a |-> a, oc |-> None] : a \in PlanArgSet}
    /\ exc = NoExc
    /\ ret = None
    /\ sg = <<>>
    /\ ssh = <<>>
    /\ mem \in {Mem0(e, <<>>) : e \in EnvSets}
    /\ store = None
    /\ trace = <<>>

Planned(sb) == \E i \in 1..Len(trace) : trace[i].sb = sb

ProgramGenerator ==
    /\ pc = 0
    /\ call.fn = "plan"
    /\ \E sb \in Sidebands, oc \in SendOutcomes(OutputCommands(0)) :
          /\ ~Planned(sb)
          /\ LET a == [OutputArgs(call.a.signal_chan, sb) EXCEPT
                          !.LO_freq = call.a.LO_freq, !.LO_mux = call.a.LO_mux]
                 r == output(a, mem.env, oc)
             IN  /\ exc' = r.exc
                 /\ sg' = sg \o r.sent
                 /\ trace' = Append(trace, [op |-> "output", sb |-> sb, exc |-> r.exc,
                                            sent |-> r.sent])
                 /\ pc' = IF Len(trace) = 1 THEN ExitPc ELSE 0
    /\ UNCHANGED <<call, ret, ssh, mem, store>>

NextPlan == ProgramGenerator

SpecPlan == InitPlan /\ [][NextPlan]_vars

(* the frequency handed to the generator by the i-th call *)
HandedFreq(i) == trace[i].sent[1].handed[3].arg[1].value

(* C12: for LO_freq, LO_mux > 0 and signal_chan >= 0 on the grid, the      *)
(* frequency handed to the generator is (LO_freq + 0.02 signal_chan) /     *)
(* LO_mux for USB and (LO_freq - 0.02 signal_chan) / LO_mux for LSB, and   *)
(* the two add up to 2 LO_freq / LO_mux.                                   *)
C12_PlanSymmetry ==
    call.fn = "plan" =>
        /\ \A i \in 1..Len(trace) : trace[i].sent # <<>> =>
              /\ HandedFreq(i).den = 100 * call.a.LO_mux
              /\ trace[i].sb = "USB" =>
                     HandedFreq(i).num = call.a.LO_freq + 2 * call.a.signal_chan
              /\ trace[i].sb = "LSB" =>
                     HandedFreq(i).num = call.a.LO_freq - 2 * call.a.signal_chan
        /\ \A i, j \in 1..Len(trace) :
              (/\ trace[i].sb = "USB" /\ trace[j].sb = "LSB"
               /\ trace[i].sent # <<>> /\ trace[j].sent # <<>>) =>
                  \* num_u / den + num_l / den = 2 LO_freq / (100 LO_mux)
                  /\ HandedFreq(i).den = HandedFreq(j).den
                  /\ (HandedFreq(i).num + HandedFreq(j).num) * (100 * call.a.LO_mux)
                     = 2 * call.a.LO_freq * HandedFreq(i).den

C12_Witness ==
    /\ call.fn = "plan"
    /\ pc = ExitPc
    /\ call.a.signal_chan = 2 /\ call.a.LO_mux = 3
    /\ \A i \in 1..2 : trace[i].sent # <<>> /\ trace[i].exc = NoExc
    /\ HandedFreq(1).num # HandedFreq(2).num

---------------------------------------------------------------------------
(* C13: a download makes at most two remote reads, cat of new_pow.csv then *)
(* cat of new_phase.csv; when a read exits non-zero or times out the call  *)
(* fails and returns no record; when both succeed, what the call raises or *)
(* returns is the decoding of what the two commands printed, the power     *)
(* table from the first and the phase table from the second.               *)
C13_DecodesCapturedOutput ==
    Returned("download") =>
        /\ Len(ssh) \in 1..2
        /\ ssh[1].cmd[1].prog = "cat"
        /\ ssh[1].cmd[1].dir[6] = "new_pow.csv"
        /\ Len(ssh) = 2 =>
              /\ ssh[2].cmd[1].prog = "cat"
              /\ ssh[2].cmd[1].dir[6] = "new_phase.csv"
        /\ (call.oc.oc_autos # "ok" \/ call.oc.oc_cross # "ok") =>
              (exc.at = "run" /\ ret = None)
        /\ (call.oc.oc_autos = "ok" /\ call.oc.oc_cross = "ok") =>
              /\ Len(ssh) = 2
              /\ exc = Assemble(call.oc.out_autos, call.oc.out_cross, call.a,
                                call.oc.now, call.oc.lib).exc
              /\ ret = Assemble(call.oc.out_autos, call.oc.out_cross, call.a,
                                call.oc.now, call.oc.lib).ds

---------------------------------------------------------------------------
(* C14: for two well-formed tables of n rows each, the assembled record    *)
(* has chan = 0..n-1 and, for every row i, freq[i] is the cell of the      *)
(* power table's column freq[GHz], auto_usb[i] that of out0, auto_lsb[i]   *)
(* that of out1, and cross_2sb[i] has the phase table's real[i] as real    *)
(* part and imag[i] as imaginary part, wherever the columns stand.         *)
C14_ColumnsByName ==
    (/\ Decoded
     /\ WellFormedTexts
     /\ Len(call.a.stdout_autos[1].rows) = Len(call.a.stdout_cross[1].rows)) =>
        LET pow == call.a.stdout_autos[1]
            pha == call.a.stdout_cross[1]
            n == Len(pow.rows)
        IN  /\ exc = NoExc
            /\ ret # None
            /\ ret[1].chan = [i \in 1..n |-> i - 1]
            /\ Len(ret[1].freq) = n
            /\ Len(ret[1].auto_USB[1]) = n
            /\ Len(ret[1].auto_LSB[1]) = n
            /\ Len(ret[1].cross_2SB[1]) = n
            /\ \A i \in 1..n :
                  /\ \A j \in 1..Len(pow.header) :
                        /\ pow.header[j] = "freq[GHz]" => ret[1].freq[i] = pow.rows[i][j]
                        /\ pow.header[j] = "out0" => ret[1].auto_USB[1][i] = pow.rows[i][j]
                        /\ pow.header[j] = "out1" => ret[1].auto_LSB[1][i] = pow.rows[i][j]
                  /\ \A j \in 1..Len(pha.header) :
                        /\ pha.header[j] = "real" =>
                               ret[1].cross_2SB[1][i].re = pha.rows[i][j]
                        /\ pha.header[j] = "imag" =>
                               ret[1].cross_2SB[1][i].im = pha.rows[i][j]

C14_Witness ==
    /\ Decoded
    /\ call.a.stdout_autos # None /\ call.a.stdout_cross # None
    /\ call.a.stdout_autos[1].header = <<"out1", "freq[GHz]", "out0">>
    /\ call.a.stdout_cross[1].header = <<"imag", "real">>
    /\ Len(call.a.stdout_autos[1].rows) = 2 /\ Len(call.a.stdout_cross[1].rows) = 2
    /\ ret # None
    /\ ret[1].freq = <<9000, 9002>>
    /\ ret[1].cross_2SB[1] = <<Complex(1, 2), Complex(3, 4)>>

---------------------------------------------------------------------------
(* SpecAll: a process either makes one call of the library (Spec) or runs  *)
(* main (SpecMain)                                                         *)

InitAll == Init \/ InitMain

NextAll == CallOutput \/ CallMeasure \/ CallDownload \/ RunTry \/ RunFinally

SpecAll == InitAll /\ [][NextAll]_vars

InMain == call.fn = "none"

Count(ops) == Cardinality({i \in 1..Len(trace) : trace[i].op \in ops})

(* C15: nothing is retried. A call of output makes at most one send, a     *)
(* call of measure at most one remote command, a call of download at most  *)
(* two different ones and none after a failed one; in a run of main every  *)
(* statement is started at most once, nothing of the try block follows a   *)
(* failed statement, and there are no more sends and remote commands than  *)
(* the statements started account for.                                     *)
C15_NoRetry ==
    /\ Returned("output") => Len(sg) <= 1 /\ ssh = <<>>
    /\ Returned("measure") =>
          /\ Len(ssh) <= 1 /\ sg = <<>>
          /\ call.a.integ_time \in {100, 200, 500, 1000} => Len(ssh) = 1
    /\ Returned("download") =>
          /\ Len(ssh) <= 2 /\ sg = <<>>
          /\ Len(ssh) = 2 => ssh[1] # ssh[2]
          /\ call.oc.oc_autos # "ok" => Len(ssh) = 1
    /\ InMain =>
          /\ \A i, j \in 1..Len(trace) :
                (trace[i].op = trace[j].op /\ trace[i].sb = trace[j].sb) => i = j
          /\ \A i \in 1..Len(TryTrace) : TryTrace[i].exc # NoExc => i = Len(TryTrace)
          /\ Len(sg) <= Count({"output", "stop"})
          /\ Len(ssh) <= Count({"measure"}) + 2 * Count({"download"})

C15_Witness ==
    /\ InMain
    /\ pc = ExitPc
    /\ \E i \in 1..Len(trace) :
          trace[i].op = "measure" /\ trace[i].exc.type = "TimeoutExpired"
    /\ Len(ssh) = 1
    /\ Len(sg) = 2

---------------------------------------------------------------------------
(* SpecScript: samples/single_channel.py from its first line: the imports  *)
(* of line 9, then main. The script runs against the drs4_dsbs that is     *)
(* installed: the one of dsbs.py, or a revision that also provides stop.   *)

(* dsbs.__all__ *)
DsbsAll == {"download", "measure", "output"}

(* __all__ of a revision of dsbs.py that defines stop *)
DsbsAllWithStop == DsbsAll \cup {"stop"}

(* the names drs4_dsbs/__init__.py binds: its submodules and dsbs.__all__ *)
PackageNames(dsbs_all) == {"dsbs", "scpi"} \cup dsbs_all

(* from drs4_dsbs import download, measure, output, stop *)
ImportedNames == {"download", "measure", "output", "stop"}

InitScript ==
    /\ pc = 0
    /\ call = NoCall
    /\ exc = NoExc
    /\ ret = None
    /\ sg = <<>>
    /\ ssh = <<>>
    /\ mem \in {[dsbs_all |-> p] @@ Mem0(e, av) :
                  p \in {DsbsAll, DsbsAllWithStop}, e \in EnvSets, av \in ArgvSet}
    /\ store = None
    /\ trace = <<>>

LoadScript ==
    /\ pc = 0
    /\ call = NoCall
    /\ LET e == IF ImportedNames \subseteq PackageNames(mem.dsbs_all) THEN NoExc
                ELSE Exc("ImportError", "import")
       IN  /\ exc' = e
           /\ trace' = Append(trace, [op |-> "import", sb |-> "", exc |-> e])
           /\ pc' = IF e = NoExc THEN 1 ELSE ExitPc
    /\ UNCHANGED <<call, ret, sg, ssh, mem, store>>

NextScript == LoadScript \/ RunTry \/ RunFinally

SpecScript == InitScript /\ [][NextScript]_vars

(* C16: on every way out of the sample workflow, stop has been executed    *)
(* exactly once and was the last thing the run did.                        *)
C16_StopOnceAndLast ==
    (pc = ExitPc /\ InMain) =>
        /\ Count({"stop"}) = 1
        /\ trace[Len(trace)].op = "stop"

---------------------------------------------------------------------------
(* C17: whenever main triggers an integration, the last send to the        *)
(* generator delivered every command it was handed, these are OUTP OFF,    *)
(* FREQ:MODE CW, FREQ:CW <frequency>GHZ, OUTP ON with the frequency        *)
(* planned for the sideband being measured, and the programming statement  *)
(* of that sideband is the last one before the trigger that programmed     *)
(* the generator and did not fail.                                         *)
JustTriggered == Len(trace) > 0 /\ trace[Len(trace)].op = "measure"

C17_TriggerAfterProgramming ==
    (InMain /\ JustTriggered) =>
        LET sb == trace[Len(trace)].sb
            last == sg[Len(sg)]
        IN  /\ sg # <<>>
            /\ last.delivered = last.handed
            /\ CmdNames(last.delivered) =
                   <<"OUTP OFF", "FREQ:MODE CW", "FREQ:CW", "OUTP ON">>
            /\ last.delivered[3].arg[1].value.den = 100 * DEFAULT_LO_MUX
            /\ last.delivered[3].arg[1].value.num =
                   (IF sb = "USB" THEN DEFAULT_LO_FREQ + 2 * mem.signal_chan[1]
                    ELSE DEFAULT_LO_FREQ - 2 * mem.signal_chan[1])
            /\ \E k \in 1..(Len(trace) - 1) :
                  /\ trace[k].op = "output" /\ trace[k].sb = sb /\ trace[k].exc = NoExc
                  /\ \A j \in (k + 1)..(Len(trace) - 1) :
                        trace[j].op \notin {"output", "stop"}

C17_Witness ==
    /\ InMain
    /\ JustTriggered
    /\ trace[Len(trace)].sb = "USB"
    /\ mem.signal_chan = <<2>>
    /\ Len(sg) = 1
    /\ Len(sg[1].delivered) = 4

===========================================================================
